---- MODULE Spec2Model ----
(***************************************************************************)
(* The lead-intake tool functions, the agent policies that call them and   *)
(* the two conversation drivers of the insurance agent repository.         *)
(*                                                                         *)
(* A Python str is a sequence of tokens (a token is a literal piece of an  *)
(* f-string or one interpolated value), so a prefix test is a test of the  *)
(* first token and containment is containment of a token run.              *)
(***************************************************************************)
EXTENDS Integers, Sequences, FiniteSets, TLC

\* Number of user turns one session submits.
MaxTurns == 2

(*************************** Python values *********************************)

PyStr(s) == [t |-> "str", s |-> s]
\* json null (any non-string JSON value is returned by dict.get as it is)
PyNone == [t |-> "none", s |-> <<>>]

IsStr(v) == v.t = "str"

\* str.startswith(p), p one token
StartsWith(v, p) == IF IsStr(v) /\ Len(v.s) >= 1 THEN v.s[1] = p ELSE FALSE

\* sub occurs in text as a contiguous run
Contains(text, sub) ==
    \E i \in 0..(Len(text) - Len(sub)) : SubSeq(text, i + 1, i + Len(sub)) = sub

IsPrefix(p, s) == Len(p) <= Len(s) /\ SubSeq(s, 1, Len(p)) = p

(*************************** the backend ***********************************)

\* What requests.post(...) and the calls on its result can meet.
\*   kind: "timeout" (no answer within timeout=30), "connection", "http"
\*   body: "not_json", "non_object" (a JSON list), "object"
\*   has/val: whether the object holds the key looked up, and its value
\*   decodeExc: the class response.json() raises on a non-JSON body
\*              (requests.JSONDecodeError from requests 2.27, ValueError before)
Resp(kind, status, body, has, val, decodeExc) ==
    [kind |-> kind, status |-> status, body |-> body, has |-> has, val |-> val,
     decodeExc |-> decodeExc]

QuoteId == <<"3f2a-uuid">>
LeadSavedMessage == <<"Success:", " Lead saved">>
EmailMessage == <<"Success:", " Email sent to ", "ann@x.org", " Subject: Your Life Insurance Quote", " Body">>

Responses(val) ==
    { Resp("timeout", 0, "object", FALSE, PyNone, "ValueError"),
      Resp("connection", 0, "object", FALSE, PyNone, "ValueError"),
      Resp("http", 500, "object", FALSE, PyNone, "ValueError"),
      Resp("http", 200, "not_json", FALSE, PyNone, "JSONDecodeError"),
      Resp("http", 200, "not_json", FALSE, PyNone, "ValueError"),
      Resp("http", 200, "non_object", FALSE, PyNone, "ValueError"),
      Resp("http", 200, "object", FALSE, PyNone, "ValueError"),
      Resp("http", 200, "object", TRUE, PyNone, "ValueError"),
      Resp("http", 200, "object", TRUE, PyStr(val), "ValueError") }

\* The endpoint answered 2xx with a JSON object holding the key as a string.
Supplied(resp) ==
    /\ resp.kind = "http" /\ resp.status >= 200 /\ resp.status < 300
    /\ resp.body = "object" /\ resp.has /\ IsStr(resp.val)

\* Response.raise_for_status(): HTTPError for 400 <= status < 600
RaiseForStatus(resp) == resp.status >= 400 /\ resp.status < 600

\* The exception the body of the try block raises, "none" when it returns.
TryBody(resp) ==
    CASE resp.kind = "timeout" -> "Timeout"
      [] resp.kind = "connection" -> "ConnectionError"
      [] RaiseForStatus(resp) -> "HTTPError"
      [] resp.body = "not_json" -> resp.decodeExc
      [] resp.body = "non_object" -> "AttributeError"
      [] OTHER -> "none"

\* issubclass(exc, cls) for the classes the except clauses name
IsSubclass(exc, cls) ==
    CASE cls = "Exception" -> TRUE
      [] cls = "RequestException" ->
            exc \in {"Timeout", "ConnectionError", "HTTPError", "JSONDecodeError"}
      [] cls = "Timeout" -> exc = "Timeout"
      [] OTHER -> FALSE

\* Index of the first except clause that catches exc, 0 when none does.
Handler(exc, clauses) ==
    IF \E i \in 1..Len(clauses) : IsSubclass(exc, clauses[i])
    THEN CHOOSE i \in 1..Len(clauses) :
            /\ IsSubclass(exc, clauses[i])
            /\ \A j \in 1..(i - 1) : ~IsSubclass(exc, clauses[j])
    ELSE 0

\* How an invocation ends: a returned value, or an exception past the boundary.
Returned(v) == [raised |-> "none", ret |-> v]
Escaped(exc) == [raised |-> exc, ret |-> PyNone]

\* dict.get(key, default) on the parsed body
DictGet(resp, default) == IF resp.has THEN resp.val ELSE default

ExcText == "<str(e)>"

(*************************** tool functions ********************************)

GenerateClauses == <<"Exception">>

generate_quote_id(resp) ==
    LET exc == TryBody(resp) IN
    IF exc = "none" THEN Returned(DictGet(resp, PyStr(<<>>)))
    ELSE IF Handler(exc, GenerateClauses) = 1
         THEN Returned(PyStr(<<"Error: ", "Could not generate quote ID. ", ExcText>>))
         ELSE Escaped(exc)

EmailClauses == <<"Exception">>

send_email_notification(to_email, quote_id, full_name, resp) ==
    LET exc == TryBody(resp) IN
    IF exc = "none"
    THEN Returned(DictGet(resp, PyStr(<<"Success:", " Email notification sent.">>)))
    ELSE IF Handler(exc, EmailClauses) = 1
         THEN Returned(PyStr(<<"An error occurred while sending the email to ">>
                              \o to_email \o <<". Please try again later.">>))
         ELSE Escaped(exc)

CosmosClauses == <<"Timeout", "RequestException", "Exception">>

update_cosmos_db(quote_id, full_name, email, phone_number, age, location, resp) ==
    LET exc == TryBody(resp)
        h == Handler(exc, CosmosClauses)
    IN
    IF exc = "none"
    THEN Returned(DictGet(resp,
            PyStr(<<"Success:", " Lead information has been saved to the database.">>)))
    ELSE CASE h = 1 -> Returned(PyStr(
                    <<"The request timed out while saving lead information for ">>
                    \o full_name \o <<". Please try again later.">>))
           [] h = 2 -> Returned(PyStr(
                    <<"An error occurred while saving the lead information for ">>
                    \o full_name \o <<". Please try again later.">>))
           [] h = 3 -> Returned(PyStr(
                    <<"An unexpected error occurred while saving the lead information for ">>
                    \o full_name \o <<". Please try again later.">>))
           [] OTHER -> Escaped(exc)

\* The JSON payload update_cosmos_db posts to /leads
LeadsPayload(quote_id, full_name, email, phone_number, age, location) ==
    [quote_id |-> quote_id, full_name |-> full_name, email |-> email,
     phone_number |-> phone_number, age |-> age, location |-> location]

(*************************** agent policies ********************************)

\* The five fields the lead agent collects from the user; the sixth field of
\* a lead record, quote_id, comes from generate_quote_id.
Fields == {"full_name", "email", "phone_number", "age", "location"}

\* The lead of the session (one prospective customer).
Lead == [full_name |-> <<"Ann Lee">>, email |-> <<"ann@x.org">>,
         phone_number |-> <<"555-0100">>, age |-> 41, location |-> <<"Austin, TX">>]

\* What the agent reads of a tool's return value.
ToolText(v) == IF IsStr(v) THEN v.s ELSE <<"None">>

\* A result that reads as a failure to the agent: there is no structured error
\* code, only the text.
FailureShaped(v) ==
    IF ~IsStr(v) THEN TRUE
    ELSE IF v.s = <<>> THEN TRUE
    ELSE v.s[1] \in {"Error: ",
                     "An error occurred while sending the email to ",
                     "The request timed out while saving lead information for ",
                     "An error occurred while saving the lead information for ",
                     "An unexpected error occurred while saving the lead information for "}

Closing == "Thank you! A representative will get back to you shortly with a personalized quote. Your quote ID is "

\* Lead-Generation-Agent, "Output Message" and "Closing Statement": the full
\* response of send_email_notification, a blank line, the closing statement.
LeadFinalMessage(mailRet, quoteRet) ==
    ToolText(mailRet) \o <<"\n\n", Closing>> \o ToolText(quoteRet) \o <<".">>

\* Lead_Generation_Agent (OpenAPI tools), steps 4 and 5: the closing statement,
\* then the email confirmation message the operation returned.
SetupLeadFinalMessage(emailMsg, quote_id) ==
    <<Closing>> \o quote_id \o <<".", "\n">> \o emailMsg

\* Support agent, Response Display Rules: the exact text of the connected
\* agent's response, in a code block.
CodeFence == "<code fence>"

SupportRelay(text) == <<CodeFence>> \o text \o <<CodeFence>>

(*************************** conversation drivers **************************)

LowerChar(c) ==
    CASE c = "Q" -> "q" [] c = "U" -> "u" [] c = "I" -> "i" [] c = "T" -> "t"
      [] OTHER -> c

\* str.lower()
Lower(s) == [i \in 1..Len(s) |-> LowerChar(s[i])]

RECURSIVE LStrip(_)
LStrip(s) == IF s # <<>> /\ Head(s) = " " THEN LStrip(Tail(s)) ELSE s

RECURSIVE RStrip(_)
RStrip(s) ==
    IF s # <<>> /\ s[Len(s)] = " " THEN RStrip(SubSeq(s, 1, Len(s) - 1)) ELSE s

\* str.strip()
Strip(s) == RStrip(LStrip(s))

\* Lines typed at the prompt.
Lines == { <<"q", "u", "i", "t">>, <<"Q", "u", "I", "T">>, <<>>, <<" ">>,
           <<"h", "i">>, <<"q", "u", "i", "t", " ">> }

\* What a line tells the agent about the lead.
Infos == { {}, {"full_name", "email"}, {"phone_number", "age", "location"}, Fields }

\* A comparison that does not fold the case.
IsQuitExact(line) == line = <<"q", "u", "i", "t">>

IsQuit(line) == Lower(line) = <<"q", "u", "i", "t">>

\* What the agent can learn about the lead from a line: nothing from a blank
\* line or from a quit typed with blanks around it.
Says(line) ==
    IF Lower(Strip(line)) \in {<<>>, <<"q", "u", "i", "t">>} THEN {{}} ELSE Infos

\* The empty-input test of each driver.
IsEmptyInput(program, line) ==
    IF program = "lead_main" THEN Len(line) = 0 ELSE Len(Strip(line)) = 0

\* print(f"Last Message: {last_msg.text.value}")
PrintLastMessage(text) == <<"Last Message: ">> \o text

\* A preview of the message: its first tokens only.
PrintAgentTextPreview(text) ==
    (IF Len(text) <= 2 THEN text ELSE SubSeq(text, 1, 2)) \o <<"\n">>

\* print(f"{last_msg.text.value}\n")
PrintAgentText(text) == text \o <<"\n">>

\* print(f"Run failed: {run.last_error}\n")
PrintRunFailed(err) == <<"Run failed: ", err, "\n">>

(*************************** state *****************************************)

VARIABLES
    prog,           \* the driver running: "lead_main" (lead_processing.main) or
                    \* "chat" (run_chat_interface)
    lead_agent_id,  \* chat: the connected lead agent of the support agent, or "None"
    pc,             \* driver: "input" (at input()), "run" (in create_and_process), "exited"
    exitWhy,        \* why the loop ended: "quit", "exception"
    iter,           \* what the latest loop iteration was: "quit", "empty", "turn", "exception"
    user_prompt,    \* the line the latest input() returned
    events,         \* the client calls of the latest loop iteration, in order
    turn,           \* user turns submitted so far
    thread,         \* the thread's messages, oldest first
    run,            \* the run of the current turn
    apc,            \* where the agent is within the run
    collected,      \* lead fields the agent has been given
    quoteRes,       \* this run's generate_quote_id result
    saveRes,        \* this run's update_cosmos_db result
    lastCall,       \* this run's latest tool invocation
    runCalls,       \* the tools this run has invoked, in order
    posted,         \* payloads sent to POST /leads in the session
    okIntakes,      \* intakes of the session whose three tool calls all read as successes
    policySeen,     \* after a failed persistence of a lead with an issued quote id:
                    \* TRUE if an intake went on to notify, FALSE if one closed without
    stage,          \* this run's texts: email tool result, lead agent message, support reply
    intakeOk,       \* this run closed an intake whose tool calls all read as successes
    out,            \* what the latest loop iteration printed, line by line
    missing,        \* the environment values that are not set
    calls,          \* startup: the constructors and service calls made so far, in order
    elapsed,        \* upload_faq_to_vector_store: seconds waited so far
    vs_status,      \* upload_faq_to_vector_store: the status last observed
    vector_store_id,\* upload_faq_to_vector_store: the id returned, "none" before
    faq_agent,      \* create_faq_agent: the agent definition sent to create_agent
    invocation,     \* backend: the tool invocation under way, or the latest one
    invoked,        \* backend: tool invocations started
    sent            \* backend: HTTP requests issued

setup == <<missing, calls, elapsed, vs_status, vector_store_id, faq_agent>>
backend == <<invocation, invoked, sent>>

vars == <<prog, lead_agent_id, pc, exitWhy, iter, user_prompt, events, turn, thread, run, apc, collected,
          quoteRes, saveRes, lastCall, runCalls, posted, okIntakes, policySeen,
          stage, intakeOk, out, setup, backend>>

NoResult == [called |-> FALSE, ok |-> FALSE, ret |-> PyNone]
NoCall == [tool |-> "none", quote_id |-> <<>>,
           resp |-> Resp("http", 200, "object", FALSE, PyNone, "ValueError"),
           out |-> Returned(PyNone)]
NoStage == [tool |-> <<>>, lead |-> <<>>, support |-> <<>>]
NoRun == [status |-> "none", last_error |-> "none"]

Message(role, n, text) == [role |-> role, turn |-> n, text |-> text]

AgentMessages(th) == SelectSeq(th, LAMBDA m : m.role = "agent")

\* messages.get_last_message_text_by_role(role=AGENT): None without one
HasLastMessage(th) == AgentMessages(th) # <<>>
LastMessageText(th) == AgentMessages(th)[Len(AgentMessages(th))].text

\* update_cosmos_db returned one of its three failure strings
PersistFailed(v) ==
    IF ~IsStr(v) \/ v.s = <<>> THEN FALSE
    ELSE v.s[1] \in {"The request timed out while saving lead information for ",
                     "An error occurred while saving the lead information for ",
                     "An unexpected error occurred while saving the lead information for "}

NoAgent == [requested |-> FALSE, created |-> FALSE, sections |-> {}, tools |-> {}]

NoRequest == [method |-> "none", path |-> "none", query |-> {}, body |-> {}]
NoInvocation == [tool |-> "none", op |-> 0, via |-> "none", phase |-> "idle", idle |-> 0,
                 request |-> NoRequest, ret |-> PyNone]

\* No iteration of the conversation loop has run.
Fresh ==
    /\ exitWhy = "none"
    /\ iter = "none"
    /\ user_prompt = <<>>
    /\ events = <<>>
    /\ turn = 0
    /\ thread = <<>>
    /\ run = NoRun
    /\ apc = "idle"
    /\ collected = {}
    /\ quoteRes = NoResult
    /\ saveRes = NoResult
    /\ lastCall = NoCall
    /\ runCalls = <<>>
    /\ posted = {}
    /\ okIntakes = 0
    /\ policySeen = {}
    /\ stage = NoStage
    /\ intakeOk = FALSE
    /\ out = <<>>

NoSetup ==
    /\ calls = <<>>
    /\ elapsed = 0
    /\ vs_status = "none"
    /\ vector_store_id = "none"
    /\ faq_agent = NoAgent

NoBackend ==
    /\ invocation = NoInvocation
    /\ invoked = 0
    /\ sent = 0

\* The driver has its client, agent and thread and is about to read a line.
Init ==
    /\ \/ prog = "lead_main" /\ lead_agent_id = "n/a"
       \/ prog = "chat" /\ lead_agent_id \in {"None", "asst_lead"}
    /\ pc = "input"
    /\ missing = {}
    /\ Fresh
    /\ NoSetup
    /\ NoBackend

session == <<prog, lead_agent_id>>
history == <<posted, okIntakes, policySeen>>
agent == <<apc, collected, quoteRes, saveRes, lastCall, runCalls, stage, intakeOk>>
loop == <<iter, user_prompt, events, turn, thread, run, agent, history>>

\* The run is over: the registers of its tool calls are released.
RunEnds ==
    /\ quoteRes' = NoResult
    /\ saveRes' = NoResult
    /\ lastCall' = NoCall
    /\ runCalls' = <<>>

(*************************** driver: one loop iteration ********************)

\* if user_prompt.lower() == "quit": break
Quit(line) ==
    /\ pc = "input"
    /\ IsQuit(line)
    /\ pc' = "exited"
    /\ exitWhy' = "quit"
    /\ iter' = "quit"
    /\ user_prompt' = line
    /\ events' = <<>>
    /\ out' = IF prog = "chat"
              THEN << <<"\nThank you for using the Lead Generation Agent!">> >>
              ELSE <<>>
    /\ UNCHANGED <<session, setup, backend, turn, thread, run, agent, history>>

\* if len(user_prompt) == 0 (chat: len(user_prompt.strip()) == 0): continue
EmptyInput(line) ==
    /\ pc = "input"
    /\ ~IsQuit(line)
    /\ IsEmptyInput(prog, line)
    /\ iter' = "empty"
    /\ user_prompt' = line
    /\ events' = <<>>
    /\ out' = IF prog = "chat"
              THEN << <<"Please enter a message.\n">> >>
              ELSE << <<"Please enter a prompt.">> >>
    /\ UNCHANGED <<session, setup, backend, pc, exitWhy, turn, thread, run, agent, history>>

\* The agent of the driver takes the turn: the lead agent starts the tool
\* sequence once it has all the required information, and replies otherwise.
FirstStep(program, fields, info) ==
    IF program = "chat" THEN "support"
    ELSE IF fields = Fields /\ info # {} THEN "gen" ELSE "reply"

\* messages.create(...) then runs.create_and_process(...) is entered
Submit(line, info) ==
    /\ pc = "input"
    /\ ~IsQuit(line)
    /\ ~IsEmptyInput(prog, line)
    /\ info \in Says(line)
    /\ turn < MaxTurns
    /\ turn' = turn + 1
    /\ thread' = Append(thread, Message("user", turn + 1, line))
    /\ run' = [status |-> "in_progress", last_error |-> "none"]
    /\ pc' = "run"
    /\ iter' = "turn"
    /\ user_prompt' = line
    /\ events' = <<"messages.create", "runs.create_and_process">>
    /\ collected' = collected \cup info
    /\ apc' = FirstStep(prog, collected', info)
    /\ quoteRes' = NoResult
    /\ saveRes' = NoResult
    /\ lastCall' = NoCall
    /\ runCalls' = <<>>
    /\ stage' = NoStage
    /\ intakeOk' = FALSE
    /\ out' = IF prog = "chat" THEN << <<"\nAgent: ">> >> ELSE <<>>
    /\ UNCHANGED <<session, setup, backend, exitWhy, history>>

\* Where an exception raised inside the loop ends up: the try statement that
\* encloses the whole loop.
OnLoopException == "exited"

\* messages.create(...) raises
SubmitRaises(line) ==
    /\ pc = "input"
    /\ ~IsQuit(line)
    /\ ~IsEmptyInput(prog, line)
    /\ turn < MaxTurns
    /\ pc' = OnLoopException
    /\ exitWhy' = IF pc' = "exited" THEN "exception" ELSE exitWhy
    /\ iter' = "exception"
    /\ user_prompt' = line
    /\ events' = <<"messages.create">>
    /\ out' = << <<"An error occurred: ", ExcText>> >>
    /\ UNCHANGED <<session, setup, backend, turn, thread, run, agent, history>>

\* runs.create_and_process(...) raises
RunRaises ==
    /\ pc = "run"
    /\ run.status = "in_progress"
    /\ pc' = OnLoopException
    /\ exitWhy' = IF pc' = "exited" THEN "exception" ELSE exitWhy
    /\ iter' = "exception"
    /\ run' = NoRun
    /\ apc' = "idle"
    /\ out' = out \o << <<"An error occurred: ", ExcText>> >>
    /\ RunEnds
    /\ UNCHANGED <<session, setup, backend, user_prompt, events, turn, thread, collected, stage, intakeOk,
                   history>>

\* What lead_processing.main prints after create_and_process returned.
LeadMainOutput(th, r) ==
    IF HasLastMessage(th) THEN << PrintLastMessage(LastMessageText(th)) >> ELSE <<>>

\* What run_chat_interface prints after create_and_process returned.
ChatOutput(th, r) ==
    (IF HasLastMessage(th) THEN << PrintAgentText(LastMessageText(th)) >>
     ELSE << <<"No response from agent.\n">> >>)
    \o (IF r.status = "failed" THEN << PrintRunFailed(r.last_error) >> ELSE <<>>)

\* A blind call: it returns whatever the status of the run.
ReturnsAtOnce(r) == TRUE

\* runs.create_and_process blocks until the run has left the statuses in which
\* the service is still working on it.
Returns(r) == r.status \in {"completed", "failed"}

\* create_and_process returned: fetch the last agent message, print, next input
FinishTurn ==
    /\ pc = "run"
    /\ Returns(run)
    /\ events' = events \o <<"messages.get_last_message_text_by_role", "print">>
    /\ out' = out \o (IF prog = "chat" THEN ChatOutput(thread, run)
                      ELSE LeadMainOutput(thread, run))
    /\ pc' = "input"
    /\ UNCHANGED <<session, setup, backend, exitWhy, iter, user_prompt, turn, thread, run, agent, history>>

(*************************** the run: agent and tools **********************)

Running == pc = "run" /\ run.status = "in_progress"

Completed == [status |-> "completed", last_error |-> "none"]

Call(tool, quote_id, resp, o) == [tool |-> tool, quote_id |-> quote_id, resp |-> resp, out |-> o]

\* An exception past a tool function's boundary ends the run as failed.
AfterTool(o, next) == IF o.raised = "none" THEN next ELSE "idle"
RunAfterTool(o) ==
    IF o.raised = "none" THEN run ELSE [status |-> "failed", last_error |-> o.raised]

\* The agent answers without a tool: asks for the missing details, or chats.
AgentReply ==
    /\ Running
    /\ apc = "reply"
    /\ thread' = Append(thread, Message("agent", turn, <<"<reply>">>))
    /\ run' = Completed
    /\ apc' = "idle"
    /\ UNCHANGED <<session, setup, backend, pc, exitWhy, iter, user_prompt, events, turn, collected, quoteRes, saveRes,
                   lastCall, runCalls, stage, intakeOk, out, history>>

\* Tool Usage 1: generate_quote_id
CallGenerateQuoteId(resp) ==
    /\ Running
    /\ apc = "gen"
    /\ LET o == generate_quote_id(resp) IN
        /\ lastCall' = Call("generate_quote_id", <<>>, resp, o)
        /\ quoteRes' = [called |-> TRUE, ok |-> Supplied(resp), ret |-> o.ret]
        /\ apc' = AfterTool(o, "save")
        /\ run' = RunAfterTool(o)
    /\ runCalls' = Append(runCalls, "generate_quote_id")
    /\ UNCHANGED <<session, setup, backend, pc, exitWhy, iter, user_prompt, events, turn, thread, collected, saveRes,
                   stage, intakeOk, out, history>>

\* Tool Usage 2: update_cosmos_db with the collected information and the
\* quote id the agent was given
CallUpdateCosmosDb(resp) ==
    /\ Running
    /\ apc = "save"
    /\ LET qid == ToolText(quoteRes.ret)
           o == update_cosmos_db(qid, Lead.full_name, Lead.email, Lead.phone_number,
                                 Lead.age, Lead.location, resp)
       IN
        /\ lastCall' = Call("update_cosmos_db", qid, resp, o)
        /\ saveRes' = [called |-> TRUE, ok |-> Supplied(resp), ret |-> o.ret]
        /\ posted' = posted \cup {LeadsPayload(qid, Lead.full_name, Lead.email,
                                    Lead.phone_number, Lead.age, Lead.location)}
        /\ apc' = AfterTool(o, "mail")
        /\ run' = RunAfterTool(o)
    /\ runCalls' = Append(runCalls, "update_cosmos_db")
    /\ UNCHANGED <<session, setup, backend, pc, exitWhy, iter, user_prompt, events, turn, thread, collected, quoteRes,
                   stage, intakeOk, out, okIntakes, policySeen>>

\* Tool Usage 3: send_email_notification
CallSendEmailNotification(resp) ==
    /\ Running
    /\ apc = "mail"
    /\ LET qid == ToolText(quoteRes.ret)
           o == send_email_notification(Lead.email, qid, Lead.full_name, resp)
       IN
        /\ lastCall' = Call("send_email_notification", qid, resp, o)
        /\ apc' = AfterTool(o, "final")
        /\ run' = RunAfterTool(o)
    /\ runCalls' = Append(runCalls, "send_email_notification")
    /\ policySeen' = IF quoteRes.ok /\ PersistFailed(saveRes.ret)
                     THEN policySeen \cup {TRUE} ELSE policySeen
    /\ UNCHANGED <<session, setup, backend, pc, exitWhy, iter, user_prompt, events, turn, thread, collected, quoteRes,
                   saveRes, stage, intakeOk, out, posted, okIntakes>>

\* The result the agent has just been given.
PreviousResult ==
    CASE apc = "save" -> quoteRes.ret
      [] apc = "mail" -> saveRes.ret
      [] OTHER -> lastCall.out.ret

\* The instructions give no rule for a tool result that reads as a failure:
\* the agent may go on with the next step (the actions above), or report the
\* failure to the user and end the run here.
AgentStopsAfterFailure ==
    /\ Running
    /\ apc \in {"save", "mail", "final"}
    /\ FailureShaped(PreviousResult)
    /\ thread' = Append(thread, Message("agent", turn, ToolText(PreviousResult)))
    /\ run' = Completed
    /\ apc' = "idle"
    /\ policySeen' = IF apc = "mail" /\ quoteRes.ok /\ PersistFailed(saveRes.ret)
                     THEN policySeen \cup {FALSE} ELSE policySeen
    /\ RunEnds
    /\ UNCHANGED <<session, setup, backend, pc, exitWhy, iter, user_prompt, events, turn, collected, stage, intakeOk,
                   out, posted, okIntakes>>

\* Tool Usage 4 and Output Message: the final message of the lead agent
AgentFinal ==
    /\ Running
    /\ apc = "final"
    /\ LET text == LeadFinalMessage(lastCall.out.ret, quoteRes.ret)
           ok == /\ ~FailureShaped(quoteRes.ret)
                 /\ ~FailureShaped(saveRes.ret)
                 /\ ~FailureShaped(lastCall.out.ret)
       IN
        /\ thread' = Append(thread, Message("agent", turn, text))
        /\ stage' = [tool |-> ToolText(lastCall.out.ret), lead |-> text, support |-> <<>>]
        /\ intakeOk' = ok
        /\ okIntakes' = IF ok THEN okIntakes + 1 ELSE okIntakes
    /\ run' = Completed
    /\ apc' = "idle"
    /\ RunEnds
    /\ UNCHANGED <<session, setup, backend, pc, exitWhy, iter, user_prompt, events, turn, collected, out, posted, policySeen>>

\* chat: the support agent answers from the FAQ search (or with the fallback
\* sentence) without delegating.
SupportAnswer ==
    /\ Running
    /\ apc = "support"
    /\ thread' = Append(thread, Message("agent", turn, <<"<faq answer>">>))
    /\ run' = Completed
    /\ apc' = "idle"
    /\ UNCHANGED <<session, setup, backend, pc, exitWhy, iter, user_prompt, events, turn, collected, quoteRes, saveRes,
                   lastCall, runCalls, stage, intakeOk, out, history>>

\* chat: the support agent invokes the connected lead agent, whose run
\* processes the lead through the OpenAPI operations and ends with its final
\* message; the support agent replies with that text.
SupportDelegate ==
    /\ Running
    /\ apc = "support"
    /\ lead_agent_id # "None"
    /\ collected = Fields
    /\ LET lead == SetupLeadFinalMessage(EmailMessage, QuoteId)
           reply == SupportRelay(lead)
       IN
        /\ thread' = Append(thread, Message("agent", turn, reply))
        /\ stage' = [tool |-> EmailMessage, lead |-> lead, support |-> reply]
    /\ intakeOk' = TRUE
    /\ run' = Completed
    /\ apc' = "idle"
    /\ UNCHANGED <<session, setup, backend, pc, exitWhy, iter, user_prompt, events, turn, collected, quoteRes, saveRes,
                   lastCall, runCalls, out, history>>

\* The hosted run ends in failed status.
RunFails ==
    /\ Running
    /\ run' = [status |-> "failed", last_error |-> "server_error"]
    /\ apc' = "idle"
    /\ RunEnds
    /\ UNCHANGED <<session, setup, backend, pc, exitWhy, iter, user_prompt, events, turn, thread, collected, stage,
                   intakeOk, out, history>>

Next ==
    \/ \E line \in Lines : Quit(line)
    \/ \E line \in Lines : EmptyInput(line)
    \/ \E line \in Lines, info \in Infos : Submit(line, info)
    \/ \E line \in Lines : SubmitRaises(line)
    \/ RunRaises
    \/ FinishTurn
    \/ AgentReply
    \/ \E resp \in Responses(QuoteId) : CallGenerateQuoteId(resp)
    \/ \E resp \in Responses(LeadSavedMessage) : CallUpdateCosmosDb(resp)
    \/ \E resp \in Responses(EmailMessage) : CallSendEmailNotification(resp)
    \/ AgentStopsAfterFailure
    \/ AgentFinal
    \/ SupportAnswer
    \/ SupportDelegate
    \/ RunFails

Spec == Init /\ [][Next]_vars

(*************************** startup of the entry points *******************)

\* "lead_main": lead_processing.main; "setup_main": agent_lead_processing_setup.main;
\* "support_setup": create_life_insurance_faq_agent; "chat": run_chat_interface
EntryPoints == {"lead_main", "setup_main", "support_setup", "chat"}

EnvNames == {"AI_FOUNDARY_ENDPOINT", "MODEL_DEPLOYMENT_NAME",
             "AZURE_FUNCTION_BASE_URL", "AZURE_FUNCTION_CODE"}

\* The "if not ...: raise ValueError(...)" tests of an entry point, in order.
Checked(program) ==
    CASE program \in {"lead_main", "setup_main"} ->
            << {"AI_FOUNDARY_ENDPOINT", "MODEL_DEPLOYMENT_NAME"},
               {"AZURE_FUNCTION_BASE_URL", "AZURE_FUNCTION_CODE"} >>
      [] program = "support_setup" ->
            << {"AI_FOUNDARY_ENDPOINT", "MODEL_DEPLOYMENT_NAME"} >>
      [] OTHER -> <<>>

\* The environment values an entry point goes on to use.
Uses(program) ==
    CASE program \in {"lead_main", "setup_main"} -> EnvNames
      [] program = "support_setup" -> {"AI_FOUNDARY_ENDPOINT", "MODEL_DEPLOYMENT_NAME"}
      [] OTHER -> {"AI_FOUNDARY_ENDPOINT"}

\* print(f"... {e}") of the except clause that encloses the entry point
ErrorLine(program) ==
    IF program = "support_setup" THEN <<"Setup failed: ", ExcText>>
    ELSE <<"An error occurred: ", ExcText>>

\* An exception reaches the entry point's except clause: report and return.
Fails ==
    /\ pc' = "exited"
    /\ exitWhy' = "exception"
    /\ out' = Append(out, ErrorLine(prog))

Goes(to) ==
    /\ pc' = to
    /\ UNCHANGED <<exitWhy, out>>

\* A call to the agent service can succeed only at a configured endpoint.
CanSucceed(ok) == ok => "AI_FOUNDARY_ENDPOINT" \notin missing

SetupInit ==
    /\ prog \in EntryPoints
    /\ lead_agent_id = "n/a"
    /\ pc = "start"
    /\ missing \in SUBSET EnvNames
    /\ Fresh
    /\ NoSetup
    /\ NoBackend

\* The validation at the top of the entry point (the FAQ file test of
\* create_life_insurance_faq_agent included).
Validate(faq_exists) ==
    /\ pc = "start"
    /\ IF prog = "support_setup" /\ ~faq_exists THEN Fails
       ELSE IF \E i \in 1..Len(Checked(prog)) : Checked(prog)[i] \cap missing # {}
            THEN Fails
            ELSE Goes("client")
    /\ UNCHANGED <<prog, lead_agent_id, setup, loop, backend>>

AfterClient(program) ==
    CASE program \in {"lead_main", "setup_main"} -> "create_agent"
      [] program = "support_setup" -> "upload"
      [] OTHER -> "get_agent"

\* credential = AzureCliCredential(...); client = AgentsClient(endpoint=..., ...)
\* Whether the constructor accepts endpoint=None or raises is the SDK's choice.
Connect(raised) ==
    /\ pc = "client"
    /\ raised => "AI_FOUNDARY_ENDPOINT" \in missing
    /\ calls' = calls \o <<"AzureCliCredential", "AgentsClient">>
    /\ IF raised THEN Fails ELSE Goes(AfterClient(prog))
    /\ UNCHANGED <<prog, lead_agent_id, missing, elapsed, vs_status, vector_store_id,
                   faq_agent, loop, backend>>

\* client.create_agent(...) of lead_processing.main and agent_lead_processing_setup.main
CreateAgent(ok) ==
    /\ pc = "create_agent"
    /\ CanSucceed(ok)
    /\ calls' = Append(calls, "create_agent")
    /\ IF ok THEN Goes("thread") ELSE Fails
    /\ UNCHANGED <<prog, lead_agent_id, missing, elapsed, vs_status, vector_store_id,
                   faq_agent, loop, backend>>

\* client.get_agent(agent_id) of run_chat_interface
GetAgent(ok) ==
    /\ pc = "get_agent"
    /\ CanSucceed(ok)
    /\ calls' = Append(calls, "get_agent")
    /\ IF ok THEN Goes("thread") ELSE Fails
    /\ UNCHANGED <<prog, lead_agent_id, missing, elapsed, vs_status, vector_store_id,
                   faq_agent, loop, backend>>

\* thread = client.threads.create(); the drivers then enter their loop
CreateThread(ok) ==
    /\ pc = "thread"
    /\ CanSucceed(ok)
    /\ calls' = Append(calls, "threads.create")
    /\ IF ok THEN Goes(IF prog = "setup_main" THEN "done" ELSE "input") ELSE Fails
    /\ UNCHANGED <<prog, lead_agent_id, missing, elapsed, vs_status, vector_store_id,
                   faq_agent, loop, backend>>

(*************************** upload_faq_to_vector_store ********************)

max_wait == 60
PollSleep == 2

\* client.files.upload(...) and client.vector_stores.create(...)
Upload(ok) ==
    /\ pc = "upload"
    /\ CanSucceed(ok)
    /\ calls' = calls \o <<"files.upload", "vector_stores.create">>
    /\ elapsed' = 0
    /\ vs_status' = IF ok THEN "in_progress" ELSE vs_status
    /\ IF ok THEN Goes("poll") ELSE Fails
    /\ UNCHANGED <<prog, lead_agent_id, missing, vector_store_id, faq_agent, loop, backend>>

\* The loop test that keeps polling.
KeepsWaiting(e) == e < max_wait

\* One pass through the loop body: get the store, look at its status, sleep.
Poll(status, ok) ==
    /\ pc = "poll"
    /\ KeepsWaiting(elapsed)
    /\ CanSucceed(ok)
    /\ vs_status' = IF ok THEN status ELSE vs_status
    /\ IF ~ok \/ status = "failed" THEN Fails /\ UNCHANGED <<elapsed, vector_store_id>>
       ELSE IF status = "completed"
            THEN /\ vector_store_id' = "vs_1"
                 /\ Goes("lookup")
                 /\ UNCHANGED elapsed
            ELSE /\ elapsed' = elapsed + PollSleep
                 /\ Goes("poll")
                 /\ UNCHANGED vector_store_id
    /\ UNCHANGED <<prog, lead_agent_id, missing, calls, faq_agent, loop, backend>>

\* The loop test fails: the statement after the loop, return vector_store.id
PollExpires ==
    /\ pc = "poll"
    /\ ~KeepsWaiting(elapsed)
    /\ vector_store_id' = "vs_1"
    /\ Goes("lookup")
    /\ UNCHANGED <<prog, lead_agent_id, missing, calls, elapsed, vs_status, faq_agent,
                   loop, backend>>

(*************************** the support agent *****************************)

\* get_lead_generation_agent_id: the id of the agent named Lead_Generation_Agent,
\* None when no agent has the name or when listing raised
GetLeadGenerationAgentId(outcome) ==
    /\ pc = "lookup"
    /\ calls' = Append(calls, "list_agents")
    /\ lead_agent_id' = IF outcome = "found" THEN "asst_lead" ELSE "None"
    /\ Goes("create_faq")
    /\ UNCHANGED <<prog, missing, elapsed, vs_status, vector_store_id, faq_agent, loop,
                   backend>>

\* The sections of the instructions create_faq_agent builds.
FaqInstructions(id) ==
    {"Core Behavior Rules"}
    \cup (IF id # "None"
          THEN {"Connected Agent Integration", "Response Display Rules"} ELSE {})

Tool(type, id) == [type |-> type, id |-> id]

\* tools = file_search_tool.definitions + connected_agent_tool_lead_generation.definitions
FaqTools(id) == {Tool("file_search", "vs_1"), Tool("connected_agent", id)}

\* create_faq_agent: whether the service accepts the definition is its choice.
CreateFaqAgent(ok) ==
    /\ pc = "create_faq"
    /\ calls' = Append(calls, "create_agent")
    /\ faq_agent' = [requested |-> TRUE, created |-> ok,
                     sections |-> FaqInstructions(lead_agent_id),
                     tools |-> FaqTools(lead_agent_id)]
    /\ IF ok THEN Goes("done") ELSE Fails
    /\ UNCHANGED <<prog, lead_agent_id, missing, elapsed, vs_status, vector_store_id,
                   loop, backend>>

SetupNext ==
    \/ \E faq_exists \in BOOLEAN : Validate(faq_exists)
    \/ \E raised \in BOOLEAN : Connect(raised)
    \/ \E ok \in BOOLEAN : CreateAgent(ok)
    \/ \E ok \in BOOLEAN : GetAgent(ok)
    \/ \E ok \in BOOLEAN : CreateThread(ok)
    \/ \E ok \in BOOLEAN : Upload(ok)
    \/ \E status \in {"in_progress", "completed", "failed"}, ok \in BOOLEAN :
            Poll(status, ok)
    \/ PollExpires
    \/ \E outcome \in {"found", "absent", "raised"} : GetLeadGenerationAgentId(outcome)
    \/ \E ok \in BOOLEAN : CreateFaqAgent(ok)

SetupSpec == SetupInit /\ [][SetupNext]_vars

(*************************** one tool invocation, step by step *************)

\* Tool invocations one session of the backend model makes.
MaxCalls == 2

\* requests.post(..., timeout=30): seconds without a byte from the server,
\* while connecting and while reading, after which requests raises Timeout.
\* It is no limit on the time the whole response takes.
timeout == 30

\* The backend operations: 1 issues a quote id, 2 persists the lead, 3 sends
\* the email.  Their names in user_functions and their operationIds in
\* openapi_spec, in that order.
user_functions == <<"generate_quote_id", "update_cosmos_db", "send_email_notification">>
OperationIds == <<"generate_quote_id", "process_lead", "send_email_notification">>

Request(method, path, query, body) ==
    [method |-> method, path |-> path, query |-> query, body |-> body]

\* The request a tool function sends, relative to AZURE_FUNCTION_BASE_URL.
NativeRequest(k) ==
    CASE k = 1 -> Request("POST", "/generate-quote-id", {"code"}, {})
      [] k = 2 -> Request("POST", "/leads", {"code"},
                          {"quote_id", "full_name", "email", "phone_number", "age",
                           "location"})
      [] OTHER -> Request("POST", "/send-email", {"code"},
                          {"to_email", "quote_id", "full_name"})

\* The request openapi_spec declares (method, path, required query parameters,
\* required body properties), relative to servers[0].url, which is
\* AZURE_FUNCTION_BASE_URL.
OpenApiRequest(k) ==
    CASE k = 1 -> Request("GET", "/api/generate-quote-id", {"code"}, {})
      [] k = 2 -> Request("POST", "/api/leads", {"code"},
                          {"quote_id", "full_name", "email", "phone_number", "age",
                           "location"})
      [] OTHER -> Request("POST", "/api/send-email", {"code"},
                          {"to_email", "quote_id", "full_name"})

\* How the agent of a program reaches the backend: Lead-Generation-Agent
\* through the functions of user_functions, Lead_Generation_Agent through the
\* OpenAPI tool.
Channel(program) == IF program = "lead_main" THEN "native" ELSE "openapi"

\* The value a tool function returns when its request ended as resp.
NativeResult(k, resp) ==
    CASE k = 1 -> generate_quote_id(resp)
      [] k = 2 -> update_cosmos_db(QuoteId, Lead.full_name, Lead.email,
                                   Lead.phone_number, Lead.age, Lead.location, resp)
      [] OTHER -> send_email_notification(Lead.email, QuoteId, Lead.full_name, resp)

\* The field of the answer each function looks up.
Answer(k) == CASE k = 1 -> QuoteId [] k = 2 -> LeadSavedMessage [] OTHER -> EmailMessage

TimeoutResp == Resp("timeout", 0, "object", FALSE, PyNone, "ValueError")

\* An except clause that sends the request again.
RetryRequest == "retry"

\* What an except clause of a tool function does after the request failed:
\* it returns its failure string.
OnRequestException == "return"

ToolInit ==
    /\ prog \in {"lead_main", "setup_main"}
    /\ lead_agent_id = "n/a"
    /\ pc = "tools"
    /\ missing = {}
    /\ Fresh
    /\ NoSetup
    /\ NoBackend

InFlight == invocation.phase \in {"connecting", "reading"}

\* The agent invokes operation k: a tool function is entered and calls
\* requests.post, or the service issues the declared request.
Invoke(k) ==
    /\ pc = "tools"
    /\ invocation.phase \in {"idle", "returned"}
    /\ invoked < MaxCalls
    /\ invoked' = invoked + 1
    /\ sent' = sent + 1
    /\ invocation' =
        IF Channel(prog) = "native"
        THEN [tool |-> user_functions[k], op |-> k, via |-> "native",
              phase |-> "connecting", idle |-> 0, request |-> NativeRequest(k),
              ret |-> PyNone]
        ELSE [tool |-> OperationIds[k], op |-> k, via |-> "openapi",
              phase |-> "service", idle |-> 0, request |-> OpenApiRequest(k),
              ret |-> PyNone]
    /\ UNCHANGED <<session, setup, pc, exitWhy, out, loop>>

\* A second passes without a byte from the server.
Tick ==
    /\ InFlight
    /\ invocation.idle < timeout
    /\ invocation' = [invocation EXCEPT !.idle = @ + 1]
    /\ UNCHANGED <<session, setup, pc, exitWhy, out, loop, invoked, sent>>

\* The server accepts the connection.
Accepts ==
    /\ invocation.phase = "connecting"
    /\ invocation.idle < timeout
    /\ invocation' = [invocation EXCEPT !.phase = "reading", !.idle = 0]
    /\ UNCHANGED <<session, setup, pc, exitWhy, out, loop, invoked, sent>>

\* The server sends some bytes of a response it has not finished.
SendsBytes ==
    /\ invocation.phase = "reading"
    /\ invocation.idle > 0
    /\ invocation.idle < timeout
    /\ invocation' = [invocation EXCEPT !.idle = 0]
    /\ UNCHANGED <<session, setup, pc, exitWhy, out, loop, invoked, sent>>

\* requests.post ends: with a complete response, a connection error, or
\* Timeout once the server has been silent for timeout seconds.  The rest of
\* the function body runs and the function returns.
Ends(resp) ==
    /\ InFlight
    /\ CASE resp.kind = "timeout" -> invocation.idle >= timeout
         [] resp.kind = "connection" -> invocation.idle < timeout
         [] OTHER -> invocation.phase = "reading" /\ invocation.idle < timeout
    /\ IF TryBody(resp) = "none" \/ OnRequestException = "return"
       THEN /\ invocation' = [invocation EXCEPT
                                !.phase = "returned",
                                !.idle = 0,
                                !.ret = NativeResult(invocation.op, resp).ret]
            /\ sent' = sent
       ELSE /\ invocation' = [invocation EXCEPT !.phase = "connecting", !.idle = 0]
            /\ sent' = sent + 1
    /\ UNCHANGED <<session, setup, pc, exitWhy, out, loop, invoked>>

\* The service hands the agent the outcome of the declared operation.
ServiceReturns ==
    /\ invocation.phase = "service"
    /\ invocation' = [invocation EXCEPT !.phase = "returned",
                                        !.ret = PyStr(<<"<operation output>">>)]
    /\ UNCHANGED <<session, setup, pc, exitWhy, out, loop, invoked, sent>>

ToolNext ==
    \/ \E k \in 1..3 : Invoke(k)
    \/ Tick
    \/ Accepts
    \/ SendsBytes
    \/ \E resp \in Responses(Answer(invocation.op)) : Ends(resp)
    \/ ServiceReturns

\* Time passes, and a timeout that is due is raised.
ToolSpec ==
    /\ ToolInit
    /\ [][ToolNext]_vars
    /\ WF_vars(Tick)
    /\ WF_vars(Ends(TimeoutResp))

(*************************** properties ************************************)

ToolOrder == <<"generate_quote_id", "update_cosmos_db", "send_email_notification">>

\* No tool invocation ends with an exception past the function's boundary:
\* every exception class the try body can raise meets an except clause.
NoToolRaises == lastCall.out.raised = "none"

\* C1: every invocation of generate_quote_id, update_cosmos_db and
\* send_email_notification, whatever the external call met (timeout, network
\* error, non-2xx status, malformed or non-JSON body), ends by returning a
\* string, and never by raising past the function.
C1_ToolsReturnString ==
    lastCall.tool # "none" =>
        lastCall.out.raised = "none" /\ IsStr(lastCall.out.ret)

\* C2: generate_quote_id returns an "Error: "-prefixed string whenever the
\* issuance call did not supply a quote identifier (a 2xx JSON body without
\* the quote_id key included).
C2_QuoteErrorPrefixed ==
    (lastCall.tool = "generate_quote_id" /\ ~Supplied(lastCall.resp)) =>
        StartsWith(lastCall.out.ret, "Error: ")

\* C3: whenever the backend call of update_cosmos_db or
\* send_email_notification failed (timeout, network error, non-2xx status, a
\* response without the message field), the returned string does not start
\* with "Success:".
C3_NoFabricatedSuccess ==
    (/\ lastCall.tool \in {"update_cosmos_db", "send_email_notification"}
     /\ ~Supplied(lastCall.resp)) =>
        ~StartsWith(lastCall.out.ret, "Success:")

\* C4: update_cosmos_db is invoked only with a quote id that
\* generate_quote_id obtained from the endpoint in this intake; after an
\* error-shaped (or empty) result there is no persistence call.
C4_PersistOnlyWithQuoteId ==
    lastCall.tool = "update_cosmos_db" =>
        /\ quoteRes.called
        /\ quoteRes.ok
        /\ lastCall.quote_id = ToolText(quoteRes.ret)

\* C5: one lead gets exactly one generate_quote_id call, then one
\* update_cosmos_db call, then one send_email_notification call: a run's calls
\* follow that order, and the session holds no second complete intake, however
\* many turns the user sends.  (Intakes cut short by a failing call are not
\* counted against the claim.)
C5_ExactlyOnceInOrder ==
    /\ IsPrefix(runCalls, ToolOrder)
    /\ okIntakes <= 1

\* C6: every payload sent to POST /leads has all six fields populated.
C6_PersistedFieldsPopulated ==
    \A p \in posted :
        /\ p.quote_id # <<>>
        /\ p.full_name # <<>>
        /\ p.email # <<>>
        /\ p.phone_number # <<>>
        /\ p.age > 0
        /\ p.location # <<>>

\* C7: after a failed persistence the intakes either all go on to
\* send_email_notification or all close without it; no two intakes differ.
C7_NotifyPolicyDeterministic == Cardinality(policySeen) <= 1

Printed == pc = "input" /\ iter = "turn"

C9_FailedRunReported ==
    (Printed /\ run.status = "failed") =>
        \E i \in 1..Len(out) : out[i] = PrintRunFailed(run.last_error)

\* C10: a run-level error (a failed run, or an exception raised by the
\* message or run submission) leaves the driver in its input loop; only the
\* quit token ends the loop.
C10_LoopSurvivesRunErrors == pc = "exited" => exitWhy = "quit"

\* The spellings of the token quit, in every letter case.
QuitSpellings ==
    { <<a, b, c, d>> : a \in {"q", "Q"}, b \in {"u", "U"}, c \in {"i", "I"},
                       d \in {"t", "T"} }

UserTexts == { thread[i].text : i \in { j \in 1..Len(thread) : thread[j].role = "user" } }

\* C11: a line that spells quit in any letter case ends the loop, is not
\* appended to the thread and creates no run; no other non-empty line makes
\* the driver take its quit exit.
C11_QuitEndsLoop ==
    /\ UserTexts \cap QuitSpellings = {}
    /\ (iter # "none" /\ user_prompt \in QuitSpellings) =>
            /\ pc = "exited"
            /\ exitWhy = "quit"
            /\ events = <<>>
    /\ (iter # "none" /\ user_prompt \notin QuitSpellings /\ user_prompt # <<>>) =>
            exitWhy # "quit"

\* A mixed-case quit was typed after a turn had been served.
C11_Witness ==
    /\ pc = "exited"
    /\ user_prompt = <<"Q", "u", "I", "T">>
    /\ turn >= 1

\* C12: in every driver an empty or whitespace-only line is a no-op: it is not
\* appended to the thread, creates no run and leaves the driver at its prompt.
C12_EmptyInputNoOp ==
    /\ \A text \in UserTexts : Strip(text) # <<>>
    /\ (iter # "none" /\ Strip(user_prompt) = <<>>) =>
            /\ iter = "empty"
            /\ pc = "input"
            /\ events = <<>>

\* C16: the driver is at its prompt, about to read a line and start a run,
\* only when the run it created before has left the in-progress status.
C16_OneRunAtATime ==
    /\ pc = "input" => run.status # "in_progress"
    /\ run.status = "in_progress" => pc = "run"

\* The second turn's run is in progress, the first turn's run having ended.
C16_Witness ==
    /\ turn = 2
    /\ pc = "run"
    /\ run.status = "in_progress"

TurnOrder ==
    <<"messages.create", "runs.create_and_process",
      "messages.get_last_message_text_by_role", "print">>

\* C17: within a turn the user message is appended, then the run is created,
\* then the run ends completed or failed, and only then is the last agent
\* message fetched and printed.
C17_TurnEventOrder ==
    /\ IsPrefix(events, TurnOrder)
    /\ Len(events) > 2 => run.status \in {"completed", "failed"}
    /\ run.status = "in_progress" =>
            events = <<"messages.create", "runs.create_and_process">>

\* A turn whose run ended failed has been fetched and printed.
C17_Witness ==
    /\ events = TurnOrder
    /\ run.status = "failed"
    /\ out # <<>>

\* C13: in every entry point, when a configuration value it uses is missing,
\* the error is reported and the program stops before any constructor or
\* service call is made.
C13_MissingConfigFatal ==
    (missing \cap Uses(prog) # {}) =>
        /\ calls = <<>>
        /\ pc \notin {"input", "done"}
        /\ pc = "exited" => out = << ErrorLine(prog) >>

\* C14: when get_lead_generation_agent_id returned None, the support agent is
\* created, its tools hold no connected-agent tool and its instructions hold
\* no delegation section.
C14_DegradesWithoutLeadAgent ==
    (faq_agent.requested /\ lead_agent_id = "None") =>
        /\ \A t \in faq_agent.tools : t.type # "connected_agent"
        /\ faq_agent.sections \cap {"Connected Agent Integration",
                                    "Response Display Rules"} = {}

\* C19: upload_faq_to_vector_store returns an id only for a store it observed
\* as completed, raises when it observed failed, and stops polling within
\* max_wait seconds.
C19_ReturnsOnlyCompletedStore ==
    /\ vector_store_id # "none" => vs_status = "completed"
    /\ vs_status = "failed" => pc = "exited" /\ vector_store_id = "none"
    /\ elapsed <= max_wait

\* C15: every invocation of a tool function returns: a request that is in
\* flight leads to the function having returned, whatever the endpoint does.
C15_InvocationReturns ==
    (invocation.via = "native" /\ InFlight) ~> (invocation.phase = "returned")

\* C18: each tool invocation issues exactly one request; after a failed
\* request the function returns without issuing another.
C18_OneRequestPerInvocation ==
    /\ sent = invoked
    /\ invocation.phase = "idle" <=> invoked = 0

\* The last invocation of the session returned a failure string.
C18_Witness ==
    /\ invoked = MaxCalls
    /\ invocation.via = "native"
    /\ invocation.phase = "returned"
    /\ FailureShaped(invocation.ret)
    /\ sent = MaxCalls

\* C20: the request an OpenAPI operation declares is the request the native
\* function of the same backend operation sends (method, path, query
\* parameters, required body properties), and no two operations of a tool set
\* share a name.
C20_DeclarationsMatch ==
    /\ invocation.via = "openapi" => invocation.request = NativeRequest(invocation.op)
    /\ Cardinality({ OperationIds[i] : i \in 1..Len(OperationIds) }) = Len(OperationIds)
    /\ Cardinality({ user_functions[i] : i \in 1..Len(user_functions) }) = Len(user_functions)

\* The agent message the driver fetched at the end of the latest turn.
FetchedMessage == AgentMessages(thread)[Len(AgentMessages(thread))]

\* C21: the agent message a turn prints was appended to the thread by that
\* turn's run; a turn whose run failed or appended no agent message does not
\* print the message of an earlier turn.
C21_NoStaleMessagePrinted ==
    (Printed /\ HasLastMessage(thread)) =>
        /\ FetchedMessage.turn = turn
        /\ \E i \in 1..Len(out) : Contains(out[i], FetchedMessage.text)

====
